---- MODULE Spec2Model ----
(***************************************************************************)
(* Model of the e-mail automation orchestration of Multi-Agent-Email.      *)
(*                                                                         *)
(* Two programs live in app/graph/orchestrator.py:                         *)
(*   - EmailAutomationOrchestrator: the conditional graph                  *)
(*     classify_intent -> retrieve_context -> external_search ->           *)
(*     generate_draft -> review_safety -> human_approval -> send_and_log   *)
(*     (specification Spec);                                               *)
(*   - Orchestrator: the imperative adapter used by the FastAPI endpoint   *)
(*     /email/draft (specification SpecAdapter).                           *)
(*                                                                         *)
(* Provider calls (LLM, search) are nondeterministic choices over their    *)
(* possible results.  Text is modelled as sequences of fragments; the      *)
(* substring tests of the source are membership tests on fragments.        *)
(***************************************************************************)
EXTENDS Integers, Sequences, FiniteSets, TLC

VARIABLES
    \* ---- GraphState (orchestrator.py:70-79) and graph position ----
    pc,                  \* node the graph executes next, or "END"
    user_query,
    intent,
    context_data,
    draft,
    safety_check_passed,
    draft_version,
    agent_history,
    citations,
    human_approved,
    \* ---- environment of the graph ----
    human_signal,        \* last signal of the external human step
    human_feedback,      \* instructions that came with that signal
    retriever_arg,       \* argument of the last self.retriever.run call
    steps,               \* node executions streamed so far
    \* ---- Orchestrator adapter / endpoint ----
    a_pc,
    task,
    intent_res,
    context,
    external_info,
    email_draft,
    review_arg,          \* text review_context was given
    safety_result,       \* what review_context returned
    safety_report,
    routing,
    final_email,
    calls,               \* agent methods invoked by the request so far
    provider_run,        \* provider interaction of the latest agent call
    log_sink,            \* TaskLogEntry lines written by log_task
    \* ---- two graph runs that differ only in their event log ----
    run_a,
    run_b,
    \* ---- SessionManager: session file and concurrent append_event calls ----
    session_file,        \* data/sessions/<id>.json and the history in it
    appender,            \* per caller: position in append_event and its mem
    appended,            \* events whose append_event call has returned
    collection           \* documents of the Chroma collection, by event_idx

gvars == <<pc, user_query, intent, context_data, draft, safety_check_passed,
           draft_version, agent_history, citations, human_approved,
           human_signal, human_feedback, retriever_arg, steps>>
avars == <<a_pc, task, intent_res, context, external_info, email_draft,
           review_arg, safety_result, safety_report, routing, final_email, calls, provider_run,
           log_sink>>
pvars == <<run_a, run_b>>
svars == <<session_file, appender, appended, collection>>
xvars == <<pvars, svars>>
vars == <<gvars, avars, xvars>>

----------------------------------------------------------------------------
(* Bounds *)

\* node executions explored per run
MaxSteps == 16

----------------------------------------------------------------------------
(* Values *)

None == "None"

\* user requests given to run_orchestrator
Queries == {"q1", "q2"}

\* Intent strings the classifier may return, as sequences of words.
default_draft == <<"default", "draft">>
draft_email_with_retrieval == <<"draft", "email", "with", "retrieval">>
research_task == <<"research", "task">>
external_email_draft == <<"external", "email", "draft">>
market_research == <<"market", "research">>
retrieval_then_external == <<"retrieval", "then", "external">>
simple_task == <<"simple", "task">>

Intents == {default_draft, draft_email_with_retrieval, research_task,
            external_email_draft, market_research, retrieval_then_external,
            simple_task}

\* a classifier result without the "intent" key
NoIntent == <<>>

\* `word in text` on a text made of fragments
InText(word, text) == \E i \in 1..Len(text) : text[i] = word

\* fragments of context_data
NoContext == "No relevant organizational context found."
OrgContext == "organizational context"
ExternalResults == "--- External Search Results ---"
RevisionNote == "--- REVISION NOTE: Safety check failed. ---"

\* what self.external_tool.run may give back: a summary, an empty result,
\* the stub text or an error string
SearchResults == {"[External] summary", "[External] no article found",
                  "[External stub]", "[External error]"}

\* signals of the external human step
HumanSignals == {"none", "approve", "reject"}
NoFeedback == ""
Feedbacks == {NoFeedback, "more research please"}

----------------------------------------------------------------------------
(* Routers of the graph *)

route_intent(i) ==
    IF InText("research", i) \/ InText("external", i) THEN "external_search"
    ELSE IF InText("retrieval", i) THEN "retrieve_context"
    ELSE "generate_draft"

route_retrieval(ctx, i) ==
    IF InText(NoContext, ctx) /\ i \in {draft_email_with_retrieval}
    THEN "external_search"
    ELSE "generate_draft"

route_safety(passed) ==
    IF passed THEN "human_approval" ELSE "generate_draft"

\* context_data after _route_safety ran: the failing branch appends a note
route_safety_context(passed, ctx) ==
    IF passed THEN ctx ELSE Append(ctx, RevisionNote)

\* a human gate that restarts the run on rejection
route_human_approval_restart(approved) ==
    IF approved THEN "send_and_log" ELSE "classify_intent"

route_human_approval(approved) ==
    IF approved THEN "send_and_log" ELSE "retrieve_context"

\* static edges of _build_graph
\* an external search that hands over to the review
edge_external_search_skips_draft == "review_safety"

edge_external_search == "generate_draft"
edge_generate_draft == "review_safety"
\* a send node that is entered again
edge_send_and_log_again == "send_and_log"

edge_send_and_log == "END"

\* a drafter that does not advance the version
next_draft_version_stuck(v) == v

next_draft_version(v) == v + 1

----------------------------------------------------------------------------
(* Initial state of a graph run *)

GraphInit ==
    /\ pc = "classify_intent"
    /\ user_query \in Queries
    /\ intent = <<>>
    /\ context_data = <<>>
    /\ draft = <<>>
    /\ safety_check_passed = FALSE
    /\ draft_version = 0
    /\ agent_history = << <<"User Input", user_query>> >>
    /\ citations = <<>>
    /\ human_approved = TRUE
    /\ human_signal = "none"
    /\ human_feedback = NoFeedback
    /\ retriever_arg = <<>>
    /\ steps = 0

GraphIdle ==
    /\ pc = "idle"
    /\ user_query = None
    /\ intent = <<>>
    /\ context_data = <<>>
    /\ draft = <<>>
    /\ safety_check_passed = FALSE
    /\ draft_version = 0
    /\ agent_history = <<>>
    /\ citations = <<>>
    /\ human_approved = FALSE
    /\ human_signal = "none"
    /\ human_feedback = NoFeedback
    /\ retriever_arg = <<>>
    /\ steps = 0

AdapterIdle ==
    /\ a_pc = "idle"
    /\ task = None
    /\ intent_res = None
    /\ context = None
    /\ external_info = <<>>
    /\ email_draft = None
    /\ review_arg = <<>>
    /\ safety_result = None
    /\ safety_report = None
    /\ routing = None
    /\ final_email = None
    /\ calls = <<>>
    /\ provider_run = [agent |-> "-", attempts |-> 0, slept |-> <<>>,
                       answer |-> [outcome |-> "none", shape |-> "-",
                                   obj |-> [none |-> TRUE]]]
    /\ log_sink = <<>>

----------------------------------------------------------------------------
(* SessionManager.append_event on one session id, called concurrently *)

\* append_event calls made by each caller
MaxAppends == 2

\* concurrent callers of append_event on the same session id
Callers == {"run1", "run2"}

\* the event of the k-th call of a caller
event_of(c, k) == <<c, k>>

IdleAppender == [at |-> "idle", mem |-> <<>>, calls_made |-> 0,
                 load_failed |-> FALSE, save_failed |-> FALSE]

\* the session file: absent, holding the JSON of a history, or cut short by
\* a write that did not complete
MissingFile == [content |-> "missing", history |-> <<>>]
StoredFile(history) == [content |-> "json", history |-> history]
TruncatedFile == [content |-> "truncated", history |-> <<>>]

SessionIdle ==
    /\ session_file = MissingFile
    /\ appender = [c \in Callers |-> IdleAppender]
    /\ appended = {}
    /\ collection = {}

\* SessionManager.load_session: the history of a new SessionMemory when the
\* file does not exist, when read_text raises and when json.loads raises
history_loaded(file, readable) ==
    IF file.content = "missing" THEN <<>>
    ELSE IF ~readable THEN <<>>
    ELSE IF file.content = "truncated" THEN <<>>
    ELSE file.history

\* outcomes of path.write_text: the text is written; the file cannot be
\* opened; the file is opened, which empties it, and the write fails
WriteOutcomes == {"written", "not_opened", "write_failed"}

\* the file after save_session, which catches the exception of a failed
\* write
file_saved(file, history, outcome) ==
    IF outcome = "written" THEN StoredFile(history)
    ELSE IF outcome = "not_opened" THEN file
    ELSE TruncatedFile

\* collection.upsert of the document of an event under "<session_id>:<idx>"
upsert(docs, event_idx, event) ==
    {d \in docs : d.event_idx # event_idx}
    \cup {[event_idx |-> event_idx, document |-> event]}

\* append_event, first part: load_session reads the file into a fresh
\* SessionMemory and the event is appended to that copy
load_session(c) ==
    /\ appender[c].at = "idle"
    /\ appender[c].calls_made < MaxAppends
    /\ \E readable \in BOOLEAN :
         appender' = [appender EXCEPT
                        ![c].at = "loaded",
                        ![c].calls_made = @ + 1,
                        ![c].load_failed =
                            (session_file.content # "missing"
                             /\ (~readable
                                 \/ session_file.content = "truncated")),
                        ![c].save_failed = FALSE,
                        ![c].mem =
                            Append(history_loaded(session_file, readable),
                                   event_of(c, appender[c].calls_made + 1))]
    /\ UNCHANGED <<session_file, appended, collection, gvars, avars, pvars>>

\* append_event, second part: save_session writes the copy over the file
save_session(c) ==
    /\ appender[c].at = "loaded"
    /\ \E outcome \in WriteOutcomes :
         /\ session_file' = file_saved(session_file, appender[c].mem, outcome)
         /\ appender' = [appender EXCEPT
                           ![c].at = "saved",
                           ![c].save_failed = (outcome # "written")]
    /\ UNCHANGED <<appended, collection, gvars, avars, pvars>>

\* append_event, last part: the event is indexed under the position it has
\* in the copy, an exception of the upsert is caught, and the call returns
index_event(c) ==
    /\ appender[c].at = "saved"
    /\ \E upserted \in BOOLEAN :
         collection' =
            IF upserted
            THEN upsert(collection, Len(appender[c].mem) - 1,
                        event_of(c, appender[c].calls_made))
            ELSE collection
    /\ appended' = appended \cup {event_of(c, appender[c].calls_made)}
    /\ appender' = [appender EXCEPT ![c].at = "idle"]
    /\ UNCHANGED <<session_file, gvars, avars, pvars>>

\* times an event is stored in a history
occurrences(event, history) ==
    Cardinality({i \in 1..Len(history) : history[i] = event})

----------------------------------------------------------------------------
(* Two runs of the graph on the same inputs, with different event logs *)

\* the GraphState a run starts from, with the given event log
initial_state(query, history) ==
    [pc |-> "classify_intent", user_query |-> query, intent |-> <<>>,
     context_data |-> <<>>, draft |-> <<>>, safety_check_passed |-> FALSE,
     draft_version |-> 0, agent_history |-> history, citations |-> <<>>,
     human_approved |-> TRUE, steps |-> 0]

\* event logs a run may start with
Histories(query) ==
    { <<>>,
      << <<"User Input", query>> >>,
      << <<"Sent", "earlier draft">>, <<"User Input", query>> >> }

\* what the agents and the human step give to one node execution
NodeInputs(node) ==
    [result : IF node = "classify_intent" THEN Intents \cup {NoIntent}
              ELSE {NoIntent},
     found : IF node = "retrieve_context" THEN BOOLEAN ELSE {FALSE},
     search_result : IF node = "external_search" THEN SearchResults
                     ELSE {"[External stub]"},
     is_safe : IF node = "review_safety" THEN BOOLEAN ELSE {FALSE},
     sig : IF node = "human_approval" THEN HumanSignals ELSE {"none"}]

\* the node functions: the GraphState a node returns
node_function(s, in) ==
    CASE s.pc = "classify_intent" ->
           LET i == IF in.result = NoIntent THEN default_draft
                    ELSE in.result IN
           [s EXCEPT !.intent = i,
                     !.agent_history = Append(@, <<"Intent Classified", i>>)]
      [] s.pc = "retrieve_context" ->
           [s EXCEPT !.context_data = IF in.found THEN <<OrgContext>>
                                      ELSE <<NoContext>>,
                     !.citations = IF in.found THEN <<"source">> ELSE <<>>,
                     !.agent_history = Append(@,
                        IF in.found THEN <<"Context Retrieval", "SUCCESS">>
                                    ELSE <<"Context Retrieval", "FAILURE">>)]
      [] s.pc = "external_search" ->
           IF InText(NoContext, s.context_data)
              \/ s.intent \in {research_task, external_email_draft}
           THEN [s EXCEPT !.context_data =
                             @ \o <<ExternalResults, in.search_result>>,
                          !.agent_history =
                             Append(@, <<"External Search", "Performed">>)]
           ELSE [s EXCEPT !.agent_history =
                             Append(@, <<"External Search", "Skipped">>)]
      [] s.pc = "generate_draft" ->
           [s EXCEPT !.draft_version = next_draft_version(@),
                     !.draft = <<"draft", s.user_query, s.intent,
                                 s.context_data>>,
                     !.agent_history =
                        Append(@, <<"Draft Version",
                                    next_draft_version(s.draft_version)>>)]
      [] s.pc = "review_safety" ->
           [s EXCEPT !.safety_check_passed = in.is_safe,
                     !.agent_history =
                        Append(@, <<"Safety Check Passed", in.is_safe>>)]
      [] s.pc = "human_approval" ->
           [s EXCEPT !.human_approved = IF in.sig = "none" THEN @
                                        ELSE (in.sig = "approve")]
      [] s.pc = "send_and_log" ->
           [s EXCEPT !.agent_history =
                        Append(@, <<"Sent", s.draft, s.citations>>)]

\* a router that looks at the event log
route_by_log(node, s) ==
    IF Len(s.agent_history) > 3 THEN "send_and_log" ELSE "generate_draft"

\* the edge taken after a node returned s
route(node, s) ==
    CASE node = "classify_intent" -> route_intent(s.intent)
      [] node = "retrieve_context" -> route_retrieval(s.context_data, s.intent)
      [] node = "external_search" -> edge_external_search
      [] node = "generate_draft" -> edge_generate_draft
      [] node = "review_safety" -> route_safety(s.safety_check_passed)
      [] node = "human_approval" -> route_human_approval(s.human_approved)
      [] node = "send_and_log" -> edge_send_and_log

\* one node execution followed by its edge
graph_step(s, in) ==
    LET t == node_function(s, in)
        u == IF s.pc = "review_safety"
             THEN [t EXCEPT !.context_data =
                      route_safety_context(t.safety_check_passed, @)]
             ELSE t
    IN  [u EXCEPT !.pc = route(s.pc, u), !.steps = @ + 1]

\* the GraphState without its event log
without_log(s) == [s EXCEPT !.agent_history = <<>>]

PairIdle ==
    /\ run_a = initial_state(None, <<>>)
    /\ run_b = initial_state(None, <<>>)

PairInit ==
    \E query \in Queries :
      /\ run_a = initial_state(query, << <<"User Input", query>> >>)
      /\ run_b \in {initial_state(query, h) : h \in Histories(query)}

\* both runs execute their next node on the same inputs
pair_step ==
    /\ run_a.pc # "END"
    /\ run_a.steps < MaxSteps
    /\ \E in \in NodeInputs(run_a.pc) :
         /\ run_a' = graph_step(run_a, in)
         /\ run_b' = IF run_b.pc = "END" THEN run_b
                     ELSE graph_step(run_b, in)
    /\ UNCHANGED <<gvars, avars, svars>>

InitPair == GraphIdle /\ AdapterIdle /\ SessionIdle /\ PairInit

NextPair == pair_step

SpecPair == InitPair /\ [][NextPair]_vars

InitSession == GraphIdle /\ AdapterIdle /\ PairIdle /\ SessionIdle

NextSession ==
    \E c \in Callers :
      \/ load_session(c)
      \/ save_session(c)
      \/ index_event(c)

SpecSession == InitSession /\ [][NextSession]_vars

----------------------------------------------------------------------------
(* Nodes of the graph, each followed by the edge that leaves it *)

classify_intent ==
    /\ pc = "classify_intent"
    /\ steps < MaxSteps
    /\ \E result \in Intents \cup {NoIntent} :
         LET i == IF result = NoIntent THEN default_draft ELSE result IN
         /\ intent' = i
         /\ agent_history' = Append(agent_history, <<"Intent Classified", i>>)
         /\ pc' = route_intent(i)
    /\ steps' = steps + 1
    /\ UNCHANGED <<user_query, context_data, draft, safety_check_passed,
                   draft_version, citations, human_approved, human_signal,
                   human_feedback, retriever_arg, avars, xvars>>

retrieve_context ==
    /\ pc = "retrieve_context"
    /\ steps < MaxSteps
    /\ retriever_arg' = <<user_query>>
    /\ \E found \in BOOLEAN :
         LET ctx == IF found THEN <<OrgContext>> ELSE <<NoContext>> IN
         /\ context_data' = ctx
         /\ citations' = IF found THEN <<"source">> ELSE <<>>
         /\ agent_history' = Append(agent_history,
               IF found THEN <<"Context Retrieval", "SUCCESS">>
                        ELSE <<"Context Retrieval", "FAILURE">>)
         /\ pc' = route_retrieval(ctx, intent)
    /\ steps' = steps + 1
    /\ UNCHANGED <<user_query, intent, draft, safety_check_passed,
                   draft_version, human_approved, human_signal,
                   human_feedback, avars, xvars>>

external_search ==
    /\ pc = "external_search"
    /\ steps < MaxSteps
    /\ IF InText(NoContext, context_data)
          \/ intent \in {research_task, external_email_draft}
       THEN /\ \E search_result \in SearchResults :
                 context_data' = context_data \o <<ExternalResults, search_result>>
            /\ agent_history' = Append(agent_history, <<"External Search", "Performed">>)
       ELSE /\ context_data' = context_data
            /\ agent_history' = Append(agent_history, <<"External Search", "Skipped">>)
    /\ pc' = edge_external_search
    /\ steps' = steps + 1
    /\ UNCHANGED <<user_query, intent, draft, safety_check_passed,
                   draft_version, citations, human_approved, human_signal,
                   human_feedback, retriever_arg, avars, xvars>>

generate_draft ==
    /\ pc = "generate_draft"
    /\ steps < MaxSteps
    /\ draft_version' = next_draft_version(draft_version)
    /\ draft' = <<"draft", user_query, intent, context_data>>
    /\ agent_history' = Append(agent_history, <<"Draft Version", draft_version'>>)
    /\ pc' = edge_generate_draft
    /\ steps' = steps + 1
    /\ UNCHANGED <<user_query, intent, context_data, safety_check_passed,
                   citations, human_approved, human_signal, human_feedback,
                   retriever_arg, avars, xvars>>

review_safety ==
    /\ pc = "review_safety"
    /\ steps < MaxSteps
    /\ \E is_safe \in BOOLEAN :
         /\ safety_check_passed' = is_safe
         /\ agent_history' = Append(agent_history, <<"Safety Check Passed", is_safe>>)
         /\ context_data' = route_safety_context(is_safe, context_data)
         /\ pc' = route_safety(is_safe)
    /\ steps' = steps + 1
    /\ UNCHANGED <<user_query, intent, draft, draft_version, citations,
                   human_approved, human_signal, human_feedback,
                   retriever_arg, avars, xvars>>

human_approval ==
    /\ pc = "human_approval"
    /\ steps < MaxSteps
    /\ \E sig \in HumanSignals, fb \in Feedbacks :
         /\ (sig # "reject") => fb = NoFeedback
         /\ human_signal' = sig
         /\ human_feedback' = fb
         /\ human_approved' = IF sig = "none" THEN human_approved
                              ELSE (sig = "approve")
    /\ pc' = route_human_approval(human_approved')
    /\ steps' = steps + 1
    /\ UNCHANGED <<user_query, intent, context_data, draft,
                   safety_check_passed, draft_version, agent_history,
                   citations, retriever_arg, avars, xvars>>

send_and_log ==
    /\ pc = "send_and_log"
    /\ steps < MaxSteps
    /\ agent_history' = Append(agent_history, <<"Sent", draft, citations>>)
    /\ pc' = edge_send_and_log
    /\ steps' = steps + 1
    /\ UNCHANGED <<user_query, intent, context_data, draft,
                   safety_check_passed, draft_version, citations,
                   human_approved, human_signal, human_feedback,
                   retriever_arg, avars, xvars>>

Init == GraphInit /\ AdapterIdle /\ PairIdle /\ SessionIdle

Next ==
    \/ classify_intent
    \/ retrieve_context
    \/ external_search
    \/ generate_draft
    \/ review_safety
    \/ human_approval
    \/ send_and_log

Spec == Init /\ [][Next]_vars

----------------------------------------------------------------------------
(* Provider calls *)

\* leading request failures a provider may show before it answers
MaxProviderFailures == 3

\* attempts of every retry loop of the agents
max_retries == 3

Missing == "<missing>"
NoObj == [none |-> TRUE]

\* What a provider does on one call once the request goes through: it makes
\* the client raise something other than a RequestException, or it answers.
\* A chat completion answer has one of these shapes:
\*   not_a_dict    the JSON body is a list
\*   empty         the JSON body is {}
\*   no_choices    choices / message / content is absent (KeyError, IndexError)
\*   content_null  the assistant content is null
\*   invalid_json  the assistant content is not JSON
\*   json_number   the assistant content is a JSON number
\*   json_list     the assistant content is a JSON list
\*   json_object   the assistant content is a JSON object, held in obj
OtherException == [outcome |-> "Exception", shape |-> "-", obj |-> NoObj]
NoAnswer == [outcome |-> "none", shape |-> "-", obj |-> NoObj]
Answer(shape, obj) == [outcome |-> "response", shape |-> shape, obj |-> obj]

ChatShapes == {"not_a_dict", "empty", "no_choices", "content_null",
               "invalid_json", "json_number", "json_list"}
ChatAnswers(Objects) ==
    {OtherException} \cup {Answer(s, NoObj) : s \in ChatShapes}
                     \cup {Answer("json_object", o) : o \in Objects}

\* a provider fails `failures` requests in a row, then gives `answer`
Behaviours(Answers) ==
    [failures : 0..MaxProviderFailures, answer : Answers]

\* the provider interaction of an agent call: attempts made and what came back
ProviderRun(agent, n, answer) ==
    [agent |-> agent, attempts |-> n, slept |-> <<>>, answer |-> answer]

\* time.sleep(2 ** attempt) before the next attempt of a retry loop, put in
\* front of the sleeps of the attempts that follow
after_sleep(attempt, r) == [r EXCEPT !.run.slept = <<2 ^ attempt>> \o @]
NoProviderRun == ProviderRun("-", 0, NoAnswer)

----------------------------------------------------------------------------
(* The adapter Orchestrator behind POST /email/draft *)

\* validated EmailTask records: the two hints are optional
Hints == {None, "text"}
\* bodies that mention a delay of seven days or a compensation, and their
\* words
BodyWords ==
    [b \in {"text", "late by 7 days", "Compensation due"} |->
       CASE b = "text" -> <<"text">>
         [] b = "late by 7 days" -> <<"late", "by", "7 days">>
         [] b = "Compensation due" -> <<"Compensation", "due">>]
BodyHints == {None} \cup DOMAIN BodyWords
Tasks == [recipient : {"user@example.com"},
          subject_hint : Hints,
          body_hint : BodyHints,
          task_description : {"description"}]

\* labels the classifier prompt lists, and its two fallbacks
Labels == {"Shipping_Delay", "Refund_Request", "Incorrect_Item",
           "Product_Inquiry", "Loyalty_Program", "GDPR_Request",
           "Technical_Issue", "General_Inquiry"}
\* a fallback that asks for an external search
Error_Fallback_Searching == [dict |-> TRUE,
                             intent_label |-> "Error_Fallback_API",
                             urgency_level |-> "High",
                             needs_external_search |-> TRUE]

Error_Fallback_API == [dict |-> TRUE,
                       intent_label |-> "Error_Fallback_API",
                       urgency_level |-> "High",
                       needs_external_search |-> FALSE]
Error_Parsing == [dict |-> TRUE,
                  intent_label |-> "Error_Parsing",
                  urgency_level |-> "High",
                  needs_external_search |-> FALSE]

\* the value of json.loads when the content is JSON but not an object
NotADict == [dict |-> FALSE, intent_label |-> Missing,
             urgency_level |-> Missing, needs_external_search |-> FALSE]

\* JSON objects the classifier's provider may produce; a missing
\* needs_external_search reads as None, which is false in a condition
ClassifyObjects ==
    [dict : {TRUE},
     intent_label : Labels \cup {Missing},
     urgency_level : {"Normal"},
     needs_external_search : BOOLEAN]

ClassifyBehaviours == Behaviours(ChatAnswers(ClassifyObjects))

\* IntentClassifierAgent.classify_intent from attempt `attempt` on
RECURSIVE classify_attempt(_, _)
classify_attempt(b, attempt) ==
    IF attempt < b.failures
    THEN IF attempt < max_retries - 1
         THEN after_sleep(attempt, classify_attempt(b, attempt + 1))
         ELSE [run |-> ProviderRun("classify_intent", attempt + 1, NoAnswer),
               raised |-> FALSE,
               result |-> Error_Fallback_API]
    ELSE [run |-> ProviderRun("classify_intent", attempt + 1, b.answer),
          raised |-> FALSE,
          result |->
            IF b.answer.outcome = "Exception"
               \/ b.answer.shape \in {"not_a_dict", "empty", "no_choices",
                                      "content_null", "invalid_json"}
            THEN Error_Parsing
            ELSE IF b.answer.shape = "json_object" THEN b.answer.obj
            ELSE NotADict]

classify_intent_call(b) == classify_attempt(b, 0)

\* outcomes of IntentClassifierAgent.classify_intent
ClassifyResults == {classify_intent_call(b).result : b \in ClassifyBehaviours}

\* intent_result.get("intent_label", "General_Inquiry")
intent_label_of(intent_result) ==
    IF intent_result.intent_label = Missing THEN "General_Inquiry"
    ELSE intent_result.intent_label

\* documents of the mock knowledge base, per intent label
MOCK_KNOWLEDGE_BASE ==
    [l \in {"Shipping_Delay", "Refund_Request", "GDPR_Request",
            "Loyalty_Program", "Incorrect_Item", "Product_Inquiry",
            "General_Inquiry"} |->
       CASE l = "Shipping_Delay" ->
              <<"faq_carrier_escalation", "template_delay_apology",
                "policy_compensation_limits">>
         [] l = "Refund_Request" ->
              <<"policy_compensation_limits", "transcript_billing_dispute",
                "template_return_confirmation">>
         [] l = "GDPR_Request" ->
              <<"faq_gdpr_request", "template_dpo_acknowledgement">>
         [] l = "Loyalty_Program" ->
              <<"faq_loyalty_status", "doc_plus_benefits_2024",
                "transcript_loyalty_inquiry">>
         [] l = "Incorrect_Item" -> <<"faq_incorrect_item">>
         [] l = "Product_Inquiry" -> <<"doc_care_denim", "doc_sneaker_fit">>
         [] l = "General_Inquiry" ->
              <<"procedure_cancel_window", "doc_gift_card">>]

\* ChromaVectorStore.similarity_search: the first k documents of the label,
\* those of General_Inquiry for a label the knowledge base does not know
similarity_search(k, intent_label) ==
    LET relevant_files ==
            IF intent_label \in DOMAIN MOCK_KNOWLEDGE_BASE
            THEN MOCK_KNOWLEDGE_BASE[intent_label]
            ELSE MOCK_KNOWLEDGE_BASE["General_Inquiry"]
        n == IF Len(relevant_files) < k THEN Len(relevant_files) ELSE k
    IN  SubSeq(relevant_files, 1, n)

\* confidences are in hundredths: 0.9, 0.4 and the threshold 0.65
confidence_score(documents) == IF Len(documents) > 0 THEN 90 ELSE 40
confidence_threshold == 65

\* answers of the synthesis provider: a body that is not a JSON object, one
\* without choices, one whose first choice has no message content, one with
\* content
SynthesisAnswers ==
    {OtherException} \cup
    {Answer(s, NoObj) : s \in {"not_a_dict", "empty", "no_choices",
                               "content"}}
SynthesisBehaviours == Behaviours(SynthesisAnswers)

SynthesisError == "Error: Failed to synthesize context"
SynthesizedContext == "synthesized context"

\* the retry loop of RetrieverAgent._synthesize_context_with_llm
RECURSIVE synthesize_attempt(_, _)
synthesize_attempt(b, attempt) ==
    IF attempt < b.failures
    THEN IF attempt < max_retries - 1
         THEN after_sleep(attempt, synthesize_attempt(b, attempt + 1))
         ELSE [run |-> ProviderRun("retrieve_context", attempt + 1, NoAnswer),
               raised |-> FALSE,
               result |-> SynthesisError]
    ELSE [run |-> ProviderRun("retrieve_context", attempt + 1, b.answer),
          raised |-> FALSE,
          result |-> IF b.answer.outcome = "Exception"
                        \/ b.answer.shape # "content"
                     THEN SynthesisError ELSE SynthesizedContext]

synthesize_context_with_llm(b) == synthesize_attempt(b, 0)
\* str.lower, word by word
lower(words) ==
    [i \in 1..Len(words) |->
       IF words[i] = "Compensation" THEN "compensation" ELSE words[i]]

\* RetrieverAgent._determine_escalation; "7 day" is part of "7 days"
determine_escalation(intent_label, email_body) ==
    IF intent_label = "GDPR_Request" THEN TRUE
    ELSE IF intent_label = "Shipping_Delay"
            /\ (InText("7 days", BodyWords[email_body])
                \/ InText("7 day", BodyWords[email_body]))
    THEN TRUE
    ELSE IF intent_label = "Refund_Request"
            /\ InText("compensation", lower(BodyWords[email_body]))
    THEN TRUE
    ELSE FALSE

\* RetrieverAgent.retrieve_context for a task whose hints are strings; the
\* escalation it determines is a local that the RetrievedContext it builds
\* does not take
retrieved_context(intent_result) ==
    LET documents == similarity_search(4, intent_label_of(intent_result)) IN
    [snippets |-> documents, confidence |-> confidence_score(documents)]


\* results of ExternalToolAgent.fetch_external_info: <<prefix, text>>
ExternalStub == <<"[External stub]", "simulated">>
ExternalNoArticle == <<"[External]", "no article found">>
ExternalSummary == <<"[External]", "summary">>
\* a request error reported without the error prefix
ExternalCallErrorUntagged == <<"[External]", "request failed">>
\* the string returned on a RequestException
ExternalCallError == <<"[External error]", "request failed">>
ExternalProcessingError == <<"[External error]", "response not processed">>
NoExternalInfo == <<>>

\* answers of the search provider: a body that is not a JSON object, one
\* without results, one whose results are not objects, one with results
ExternalAnswers ==
    {OtherException} \cup
    {Answer(s, NoObj) : s \in {"not_a_dict", "no_results", "bad_items",
                               "results"}}
ExternalBehaviours == Behaviours(ExternalAnswers)

\* the retry loop of fetch_external_info from attempt `attempt` on
RECURSIVE external_attempt(_, _)
external_attempt(b, attempt) ==
    IF attempt < b.failures
    THEN IF attempt < max_retries - 1
         THEN after_sleep(attempt, external_attempt(b, attempt + 1))
         ELSE [run |-> ProviderRun("fetch_external_info", attempt + 1, NoAnswer),
               raised |-> FALSE,
               result |-> ExternalCallError]
    ELSE [run |-> ProviderRun("fetch_external_info", attempt + 1, b.answer),
          raised |-> FALSE,
          result |->
            IF b.answer.outcome = "Exception"
               \/ b.answer.shape \in {"not_a_dict", "bad_items"}
            THEN ExternalProcessingError
            ELSE IF b.answer.shape = "no_results" THEN ExternalNoArticle
            ELSE ExternalSummary]

\* a fetch that reports an unprocessed response as an empty search
fetch_external_info_untagged(has_key, b) ==
    LET r == IF ~has_key
             THEN [run |-> ProviderRun("fetch_external_info", 0, NoAnswer),
                   raised |-> FALSE,
                   result |-> ExternalStub]
             ELSE external_attempt(b, 0)
    IN  [r EXCEPT !.result = IF r.result = ExternalProcessingError
                             THEN ExternalNoArticle ELSE r.result]

\* ExternalToolAgent.fetch_external_info; without an API key it is a stub
fetch_external_info(has_key, b) ==
    IF ~has_key
    THEN [run |-> ProviderRun("fetch_external_info", 0, NoAnswer),
          raised |-> FALSE,
          result |-> ExternalStub]
    ELSE external_attempt(b, 0)

ExternalResultsOf ==
    {fetch_external_info(k, b).result :
        k \in BOOLEAN, b \in ExternalBehaviours}

\* whether create_draft calls the external tool
needs_external_fetch(intent_result) == intent_result.needs_external_search

\* DrafterAgent._call_openai_api from attempt `attempt` on (the reviewer's
\* _call_openai_api is the same code): attempts made, the provider's answer
\* if one came, and the api_result handed back (NoAnswer stands for None)
RECURSIVE openai_attempt(_, _)
openai_attempt(b, attempt) ==
    IF attempt >= max_retries
    THEN [run |-> ProviderRun("_call_openai_api", attempt, NoAnswer),
          result |-> NoAnswer]
    ELSE IF attempt < b.failures
    THEN IF attempt < max_retries - 1
         THEN after_sleep(attempt, openai_attempt(b, attempt + 1))
         ELSE [run |-> ProviderRun("_call_openai_api", attempt + 1, NoAnswer),
               result |-> NoAnswer]
    ELSE [run |-> ProviderRun("_call_openai_api", attempt + 1, b.answer),
          result |-> IF b.answer.outcome = "Exception" THEN NoAnswer
                     ELSE b.answer]

\* a call that retries at once
call_openai_api_no_backoff(b) ==
    [openai_attempt(b, 0) EXCEPT !.run.slept = <<>>]

call_openai_api(b) == openai_attempt(b, 0)

\* `not api_result`
falsy(api_result) ==
    api_result.outcome = "none" \/ api_result.shape = "empty"

\* human feedback handed to draft_email; create_draft hands none
FeedbackArgs == {None, "", "feedback"}

\* a draft that always claims the external tool as a source
draft_sources_always_external(ctx, ext, fb) ==
    (IF Len(ctx.snippets) > 0 THEN <<"vector_db">> ELSE <<>>)
    \o <<"external_tool">>
    \o (IF fb \notin {None, ""} THEN <<"human_feedback">> ELSE <<>>)

\* provenance tags of a successful draft
draft_sources(ctx, ext, fb) ==
    (IF Len(ctx.snippets) > 0 THEN <<"vector_db">> ELSE <<>>)
    \o (IF ext # NoExternalInfo /\ ext[1] # "[External error]"
        THEN <<"external_tool">> ELSE <<>>)
    \o (IF fb \notin {None, ""} THEN <<"human_feedback">> ELSE <<>>)

\* Text of the assistant content, as a sequence of tokens.  A JSON object
\* with subject and body is "{", the subject, the tokens of the body, "}";
\* an absent key or a null value is a token of its own.
\* three backticks
FENCE == "<fence>"
NEWLINE == "\n"
JsonNull == "<null>"

\* JSON objects the drafter's provider may produce, and whether the content
\* wraps the object in a Markdown json fence
DraftObjects == [subject : {"subject", Missing, JsonNull},
                 body : {<<"body">>, <<Missing>>,
                         <<"see", FENCE, "code", FENCE>>},
                 fenced : BOOLEAN]
DraftBehaviours == Behaviours(ChatAnswers(DraftObjects))

\* the assistant content that carries the object
content_of(obj) ==
    (IF obj.fenced THEN <<FENCE, "json", NEWLINE>> ELSE <<>>)
    \o <<"{", obj.subject>> \o obj.body \o <<"}">>
    \o (IF obj.fenced THEN <<NEWLINE, FENCE>> ELSE <<>>)

\* str.strip() on tokens: leading and trailing newlines go
strip(text) ==
    LET solid == {i \in 1..Len(text) : text[i] # NEWLINE} IN
    IF solid = {} THEN <<>>
    ELSE SubSeq(text,
                CHOOSE i \in solid : \A j \in solid : i <= j,
                CHOOSE i \in solid : \A j \in solid : i >= j)

\* re.search(FENCE (json)? NEWLINE? (.*) FENCE $, raw_content, DOTALL):
\* group 1 of the leftmost match, or found = FALSE without a match.  The $ also
\* matches before a newline that ends the text.
fence_search(raw_content) ==
    LET n == Len(raw_content)
        last == IF n >= 1 /\ raw_content[n] = NEWLINE THEN n - 1 ELSE n
        opens == {i \in 1..n : raw_content[i] = FENCE /\ i < last}
    IN  IF last < 2 \/ raw_content[last] # FENCE \/ opens = {}
        THEN [found |-> FALSE, group |-> <<>>]
        ELSE LET open == CHOOSE i \in opens : \A j \in opens : i <= j
                 a == IF raw_content[open + 1] = "json" /\ open + 1 < last
                      THEN open + 1 ELSE open
                 c == IF raw_content[a + 1] = NEWLINE /\ a + 1 < last
                      THEN a + 1 ELSE a
             IN  [found |-> TRUE, group |-> SubSeq(raw_content, c + 1, last - 1)]

\* raw_content.replace(FENCE, '')
without_fences(raw_content) == SelectSeq(raw_content, LAMBDA t : t # FENCE)

\* the text draft_email hands to json.loads
json_text_of(raw_content) ==
    LET m == fence_search(raw_content) IN
    IF m.found THEN strip(m.group) ELSE strip(without_fences(raw_content))

\* json.loads on the tokens of an object
json_loads(json_text) ==
    IF Len(json_text) >= 3 /\ json_text[1] = "{"
       /\ json_text[Len(json_text)] = "}"
    THEN [valid |-> TRUE, subject |-> json_text[2],
          body |-> SubSeq(json_text, 3, Len(json_text) - 1)]
    ELSE [valid |-> FALSE, subject |-> Missing, body |-> <<Missing>>]

ErrorDraftGeneration ==
    [subject |-> "[ERROR] generation failed", body |-> <<"critical error">>,
     sources |-> <<"system_error">>]
ErrorDraftParsing ==
    [subject |-> "[ERROR] response not parsed", body |-> <<"not parsable">>,
     sources |-> <<"system_error">>]
NoDraft == [subject |-> None, body |-> <<None>>, sources |-> <<>>]

\* DrafterAgent.draft_email: only KeyError, IndexError and JSONDecodeError
\* are caught while the response is processed
draft_email(ctx, ext, fb, b) ==
    LET call == call_openai_api(b)
        api_result == call.result
        run == [call.run EXCEPT !.agent = "draft_email"]
    IN  IF falsy(api_result)
        THEN [run |-> run, raised |-> FALSE, result |-> ErrorDraftGeneration]
        ELSE IF api_result.shape \in {"no_choices", "invalid_json"}
        THEN [run |-> run, raised |-> FALSE, result |-> ErrorDraftParsing]
        ELSE IF api_result.shape \in {"not_a_dict", "content_null",
                                      "json_number", "json_list"}
        THEN [run |-> run, raised |-> TRUE, result |-> NoDraft]
        ELSE LET draft_data ==
                     json_loads(json_text_of(content_of(api_result.obj)))
             IN
             IF ~draft_data.valid
             THEN [run |-> run, raised |-> FALSE, result |-> ErrorDraftParsing]
             ELSE IF draft_data.subject = JsonNull
             THEN [run |-> run, raised |-> TRUE, result |-> NoDraft]
             ELSE [run |-> run, raised |-> FALSE,
                   result |->
                     [subject |-> IF draft_data.subject = Missing
                                  THEN "default subject"
                                  ELSE draft_data.subject,
                      body |-> IF draft_data.body = <<Missing>>
                               THEN <<"default body">> ELSE draft_data.body,
                      sources |-> draft_sources(ctx, ext, fb)]]

\* outcomes of DrafterAgent.draft_email that are returned
DraftResults(ctx, ext) ==
    {draft_email(ctx, ext, None, b).result :
        b \in {x \in DraftBehaviours : ~draft_email(ctx, ext, None, x).raised}}

\* JSON objects the reviewer's provider may produce; complete says that the
\* three required keys are present
ReviewObjects ==
    [review_status : {"PASS", "FAIL", "REVIEW"},
     hil_required : BOOLEAN,
     review_notes : {"", "note"},
     complete : {TRUE}]
    \cup {[review_status |-> "PASS", hil_required |-> FALSE,
           review_notes |-> "", complete |-> FALSE]}
ReviewBehaviours == Behaviours(ChatAnswers(ReviewObjects))

ReviewFailedCall ==
    [review_status |-> "FAIL", hil_required |-> TRUE,
     review_notes |-> "System Error: LLM safety review failed."]
ReviewFailedParse ==
    [review_status |-> "FAIL", hil_required |-> TRUE,
     review_notes |-> "System Error: Failed to parse LLM output"]

\* SafetyReviewerAgent.review_context: KeyError, IndexError, JSONDecodeError
\* and ValueError are caught while the response is processed
review_context(b) ==
    LET call == call_openai_api(b)
        api_result == call.result
        run == [call.run EXCEPT !.agent = "review_context"]
    IN  IF falsy(api_result)
        THEN [run |-> run, raised |-> FALSE, result |-> ReviewFailedCall]
        ELSE IF api_result.shape \in {"no_choices", "invalid_json",
                                      "json_list"}
        THEN [run |-> run, raised |-> FALSE, result |-> ReviewFailedParse]
        ELSE IF api_result.shape \in {"not_a_dict", "content_null",
                                      "json_number"}
        THEN [run |-> run, raised |-> TRUE, result |-> ReviewFailedParse]
        ELSE IF ~api_result.obj.complete
        THEN [run |-> run, raised |-> FALSE, result |-> ReviewFailedParse]
        ELSE [run |-> run, raised |-> FALSE,
              result |->
                [review_status |-> api_result.obj.review_status,
                 hil_required |-> api_result.obj.hil_required,
                 review_notes |-> api_result.obj.review_notes]]

\* outcomes of SafetyReviewerAgent.review_context that are returned
ReviewResults ==
    {review_context(b).result :
        b \in {x \in ReviewBehaviours : ~review_context(x).raised}}

\* a report that approves every status but FAIL
safety_report_of_lenient(safety_result_, d) ==
    [approved |-> (safety_result_.review_status # "FAIL"),
     issues |-> IF safety_result_.review_notes # ""
                THEN <<safety_result_.review_notes>> ELSE <<>>,
     redacted_body |-> d.body]

\* the SafetyReport create_draft builds from a review result
safety_report_of(safety_result_, d) ==
    [approved |-> (safety_result_.review_status = "PASS"),
     issues |-> IF safety_result_.review_notes # ""
                THEN <<safety_result_.review_notes>> ELSE <<>>,
     redacted_body |-> d.body]

routing_decision(approved) == IF approved THEN "send" ELSE "human_approval"

\* a FinalEmail whose body is taken from the wrong field
final_email_of_swapped(t, d) ==
    [recipient |-> t.recipient, subject |-> d.subject, body |-> <<d.subject>>]

\* the FinalEmail approve_and_send builds
final_email_of(t, d) ==
    [recipient |-> t.recipient, subject |-> d.subject, body |-> d.body]

AdapterInit ==
    /\ a_pc = "classify_intent"
    /\ task \in Tasks
    /\ intent_res = None
    /\ context = None
    /\ external_info = NoExternalInfo
    /\ email_draft = None
    /\ review_arg = <<>>
    /\ safety_result = None
    /\ safety_report = None
    /\ routing = None
    /\ final_email = None
    /\ calls = <<>>
    /\ provider_run = NoProviderRun
    /\ log_sink = <<>>

\* create_draft wraps classify_intent in try/except; classify_intent itself
\* returns on every path
a_classify_intent ==
    /\ a_pc = "classify_intent"
    /\ \E b \in ClassifyBehaviours :
         LET r == classify_intent_call(b) IN
         /\ intent_res' = r.result
         /\ provider_run' = r.run
    /\ calls' = Append(calls, "classify_intent")
    /\ a_pc' = "retrieve_context"
    /\ UNCHANGED <<review_arg, safety_result, task, context, external_info, email_draft, safety_report,
                   routing, final_email, log_sink, gvars, xvars>>

\* retrieve_context reads intent_result.get and concatenates subject_hint
\* and body_hint: a classifier result that is not a dict raises
\* AttributeError and a missing hint raises TypeError; create_draft catches
\* neither.  Otherwise the documents are synthesized by the LLM; the
\* synthesized text is not part of the RetrievedContext that is returned
a_retrieve_context ==
    /\ a_pc = "retrieve_context"
    /\ calls' = Append(calls, "retrieve_context")
    /\ IF ~intent_res.dict
          \/ task.subject_hint = None \/ task.body_hint = None
       THEN /\ a_pc' = "raised"
            /\ context' = context
            /\ provider_run' = provider_run
       ELSE /\ a_pc' = "external"
            /\ context' = retrieved_context(intent_res)
            /\ \E b \in SynthesisBehaviours :
                 provider_run' = synthesize_context_with_llm(b).run
    /\ UNCHANGED <<review_arg, safety_result, task, intent_res, external_info, email_draft,
                   safety_report, routing, final_email,
                   log_sink, gvars, xvars>>

a_fetch_external_info ==
    /\ a_pc = "external"
    /\ IF needs_external_fetch(intent_res)
       THEN /\ \E has_key \in BOOLEAN, b \in ExternalBehaviours :
                 LET r == fetch_external_info(has_key, b) IN
                 /\ external_info' = r.result
                 /\ provider_run' = r.run
            /\ calls' = Append(calls, "fetch_external_info")
       ELSE /\ external_info' = NoExternalInfo
            /\ provider_run' = provider_run
            /\ calls' = calls
    /\ a_pc' = "draft_email"
    /\ UNCHANGED <<review_arg, safety_result, task, intent_res, context, email_draft, safety_report,
                   routing, final_email, log_sink, gvars, xvars>>

a_draft_email ==
    /\ a_pc = "draft_email"
    /\ \E b \in DraftBehaviours :
         LET r == draft_email(context, external_info, None, b) IN
         /\ provider_run' = r.run
         /\ IF r.raised
            THEN /\ a_pc' = "raised"
                 /\ email_draft' = email_draft
            ELSE /\ a_pc' = "review_context"
                 /\ email_draft' = r.result
    /\ calls' = Append(calls, "draft_email")
    /\ UNCHANGED <<review_arg, safety_result, task, intent_res, context, external_info, safety_report,
                   routing, final_email, log_sink, gvars, xvars>>

\* sep.join(parts)
RECURSIVE join(_, _)
join(sep, parts) ==
    IF Len(parts) = 0 THEN <<>>
    ELSE IF Len(parts) = 1 THEN <<parts[1]>>
    ELSE <<parts[1], sep>> \o join(sep, Tail(parts))

\* the review is given the joined snippets of the context, then create_draft
\* builds the SafetyReport and the routing decision and returns
a_review_context ==
    /\ a_pc = "review_context"
    /\ review_arg' = join("\n\n", context.snippets)
    /\ \E b \in ReviewBehaviours :
         LET r == review_context(b) IN
         /\ provider_run' = r.run
         /\ IF r.raised
            THEN /\ a_pc' = "raised"
                 /\ safety_result' = safety_result
                 /\ safety_report' = safety_report
                 /\ routing' = routing
            ELSE /\ a_pc' = "approve_and_send"
                 /\ safety_result' = r.result
                 /\ safety_report' = safety_report_of(r.result, email_draft)
                 /\ routing' = routing_decision(safety_report'.approved)
    /\ calls' = Append(calls, "review_context")
    /\ UNCHANGED <<task, intent_res, context, external_info, email_draft,
                   final_email, log_sink, gvars, xvars>>

\* create_email_draft hands the 5-tuple of create_draft to approve_and_send,
\* which builds the FinalEmail and neither sends nor logs
a_approve_and_send ==
    /\ a_pc = "approve_and_send"
    /\ final_email' = final_email_of(task, email_draft)
    /\ calls' = Append(calls, "approve_and_send")
    /\ a_pc' = "returned"
    /\ UNCHANGED <<review_arg, safety_result, task, intent_res, context, external_info, email_draft,
                   safety_report, routing, provider_run, log_sink, gvars, xvars>>

InitAdapter == GraphIdle /\ AdapterInit /\ PairIdle /\ SessionIdle

NextAdapter ==
    \/ a_classify_intent
    \/ a_retrieve_context
    \/ a_fetch_external_info
    \/ a_draft_email
    \/ a_review_context
    \/ a_approve_and_send

SpecAdapter == InitAdapter /\ [][NextAdapter]_vars

----------------------------------------------------------------------------
(* Properties *)

\* redraft limit of the specification's configuration surface (default 3)
max_redraft_attempts == 3

\* safety reviews of the run that returned the given verdict
reviews(verdict) ==
    Cardinality({i \in 1..Len(agent_history) :
                   /\ agent_history[i][1] = "Safety Check Passed"
                   /\ agent_history[i][2] = verdict})

\* the adapter request has called the given agent method
Called(method) == InText(method, calls)

\* C1: every run of the graph ends within 3 * max_redraft_attempts + 5
\* node executions.
C1_BoundedSteps == steps <= 3 * max_redraft_attempts + 5

\* C2: when no safety review approves, the draft node is entered at most
\* max_redraft_attempts times after the first draft.
C2_RedraftLimit ==
    (reviews(TRUE) = 0) => draft_version <= max_redraft_attempts + 1

\* C3: the send node is reached only after the human step signalled
\* approval for the run.
C3_SendOnlyAfterApprovalSignal ==
    (pc \in {"send_and_log", "END"}) => human_signal = "approve"

\* C4: when the retrieval confidence is at least the threshold, the external
\* fetch is not invoked, whatever needs_external_search says.
C4_NoExternalWhenConfident ==
    (a_pc \in {"external", "draft_email", "review_context",
               "approve_and_send", "returned"}
       /\ context.confidence >= confidence_threshold)
    => ~Called("fetch_external_info")

\* C5: after the review, an unapproved verdict routes back to draft and an
\* approved verdict routes to the human gate, never to send.
C5_RouteAfterReview ==
    (a_pc \in {"approve_and_send", "returned"})
    => routing = (IF safety_report.approved THEN "human_approval"
                  ELSE "generate_draft")

\* C6: at the human gate approval routes to send and rejection with feedback
\* routes to retrieve, and the retrieval that follows such a rejection is
\* given the feedback text.
C6_HumanGateRouting ==
    [][/\ (pc = "human_approval" /\ human_signal' = "approve")
            => pc' = "send_and_log"
       /\ (pc = "human_approval" /\ human_signal' = "reject"
                                 /\ human_feedback' # NoFeedback)
            => pc' = "retrieve_context"
       /\ (pc = "retrieve_context" /\ human_signal = "reject"
                                   /\ human_feedback # NoFeedback)
            => InText(human_feedback, retriever_arg')]_vars

\* C7: a rejection without feedback at the human gate ends the run in the
\* terminal state error("rejected").
C7_RejectionTerminal ==
    [][(pc = "human_approval" /\ human_signal' = "reject"
                              /\ human_feedback' = NoFeedback)
          => pc' = "error"]_vars

C9_RevisionCountAtSent ==
    (pc = "END") => draft_version = reviews(FALSE)

\* C10: the step after classify is external when the intent asks for
\* external information, and retrieve or draft otherwise.
C10_RouteAfterClassify ==
    (Len(calls) >= 2)
    => IF intent_res.needs_external_search
       THEN calls[2] = "fetch_external_info"
       ELSE calls[2] \in {"retrieve_context", "draft_email"}

\* the latest agent call is the given one
LastCall(method) == Len(calls) >= 1 /\ calls[Len(calls)] = method

\* create_draft has returned its 5-tuple
Created == a_pc \in {"approve_and_send", "returned"}

\* C11: after retrieve the external step is taken exactly when the
\* confidence is below the threshold and the intent needs external data.
C11_ExternalIffLowConfidence ==
    (a_pc \in {"draft_email", "review_context", "approve_and_send",
               "returned"})
    => (Called("fetch_external_info")
          <=> (context.confidence < confidence_threshold
               /\ intent_res.needs_external_search))

\* the classifier's provider failed the request on every attempt
ClassifyFailedEveryRetry ==
    /\ LastCall("classify_intent")
    /\ provider_run.attempts = max_retries
    /\ provider_run.answer.outcome = "none"

\* the classifier's provider gave something that cannot be parsed
ClassifyUnparsable ==
    /\ LastCall("classify_intent")
    /\ \/ provider_run.answer.outcome = "Exception"
       \/ provider_run.answer.shape \in {"not_a_dict", "empty", "no_choices",
                                         "content_null", "invalid_json"}

\* C12 as stated: a failed classification returns the fallback
\* {label "Error_Fallback", urgency "high", needs_external false}.
C12_FallbackAsStated ==
    (ClassifyFailedEveryRetry \/ ClassifyUnparsable)
    => /\ a_pc = "retrieve_context"
       /\ intent_res.intent_label = "Error_Fallback"
       /\ intent_res.urgency_level = "high"
       /\ intent_res.needs_external_search = FALSE

\* C12 (amended): classify_intent returns on every path; request failures on
\* every attempt give {Error_Fallback_API, High, false} and an unparsable
\* response gives {Error_Parsing, High, false}.
C12_Fallback ==
    /\ LastCall("classify_intent") => a_pc = "retrieve_context"
    /\ ClassifyFailedEveryRetry
         => /\ intent_res.intent_label = "Error_Fallback_API"
            /\ intent_res.urgency_level = "High"
            /\ intent_res.needs_external_search = FALSE
    /\ ClassifyUnparsable
         => /\ intent_res.intent_label = "Error_Parsing"
            /\ intent_res.urgency_level = "High"
            /\ intent_res.needs_external_search = FALSE

\* the classifier gave up after max_retries failed requests
C12_Witness ==
    /\ ClassifyFailedEveryRetry
    /\ a_pc = "retrieve_context"
    /\ intent_res.intent_label = "Error_Fallback_API"

\* C13: a run whose classification fell back after failing every retry
\* does not raise in a later step.
C13_FallbackRunCompletes ==
    (Len(calls) >= 1 /\ intent_res.intent_label = "Error_Fallback_API")
    => a_pc # "raised"

\* the drafter's provider failed, or its content is missing or not JSON
DraftProviderFailed ==
    /\ LastCall("draft_email")
    /\ \/ provider_run.answer.outcome \in {"none", "Exception"}
       \/ provider_run.answer.shape \in {"no_choices", "content_null",
                                         "invalid_json"}

\* C14: on provider or parse failure draft_email does not raise and returns
\* a draft whose subject starts with "[ERROR]" and whose sources are
\* exactly ["system_error"].
C14_DrafterNeverRaises ==
    DraftProviderFailed
    => /\ a_pc # "raised"
       /\ email_draft.subject \in {ErrorDraftGeneration.subject,
                                   ErrorDraftParsing.subject}
       /\ email_draft.sources = <<"system_error">>

\* C15: an error draft is not approved by the review and is not turned into
\* a FinalEmail.
C15_ErrorDraftFailsClosed ==
    (Created /\ email_draft.sources = <<"system_error">>)
    => /\ ~safety_report.approved
       /\ a_pc # "returned"

\* the reviewer's provider failed, or its response is malformed or lacks a
\* required key
ReviewProviderFailed ==
    \/ provider_run.answer.outcome \in {"none", "Exception"}
    \/ provider_run.answer.shape \in {"empty", "no_choices", "invalid_json",
                                      "json_list"}
    \/ /\ provider_run.answer.shape = "json_object"
       /\ ~provider_run.answer.obj.complete

ExternalProviderFailed ==
    \/ provider_run.attempts = max_retries
         /\ provider_run.answer.outcome = "none"
    \/ provider_run.answer.outcome = "Exception"
    \/ provider_run.answer.shape \in {"not_a_dict", "bad_items"}

\* C17: fetch_external_info returns on every path, with an
\* "[External error]" string on a provider error, and draft comes next.
C17_ExternalNeverThrows ==
    LastCall("fetch_external_info")
    => /\ a_pc = "draft_email"
       /\ ExternalProviderFailed => external_info[1] = "[External error]"

\* the search failed on every attempt and drafting is next
C17_Witness ==
    /\ LastCall("fetch_external_info")
    /\ provider_run.attempts = max_retries
    /\ provider_run.answer.outcome = "none"
    /\ external_info = ExternalCallError
    /\ a_pc = "draft_email"

\* C18: create_draft returns its 5-tuple for every valid task and every
\* provider outcome; no step raises.
C18_CreateDraftReturns == a_pc # "raised"

C20_SendIsLogged ==
    (a_pc = "returned") => Len(log_sink) >= 1

\* the GraphState of the run held in the variables
graph_state ==
    [pc |-> pc, user_query |-> user_query, intent |-> intent,
     context_data |-> context_data, draft |-> draft,
     safety_check_passed |-> safety_check_passed,
     draft_version |-> draft_version, agent_history |-> agent_history,
     citations |-> citations, human_approved |-> human_approved,
     steps |-> steps]

\* every node execution of Spec is a graph_step on some input of its node
StepIsGraphStep ==
    [][\E in \in NodeInputs(pc) : graph_state' = graph_step(graph_state, in)]_vars

\* C21: two runs on the same inputs that differ only in the contents of
\* their event log are in the same node with the same state, draft and
\* verdict after every step.
C21_LogIsObservational == without_log(run_a) = without_log(run_b)

\* both runs ended after a redraft, with different event logs
C21_Witness ==
    /\ run_a.pc = "END"
    /\ run_b.pc = "END"
    /\ run_a.draft_version >= 2
    /\ run_a.agent_history # run_b.agent_history

\* the provider failed the request on every attempt of the latest call
Exhausted ==
    /\ provider_run.attempts = 3
    /\ provider_run.answer.outcome = "none"

\* C22: a provider-calling step makes at most 3 attempts, sleeps 2^k
\* seconds after its k-th failed attempt (k from 0) before the next one, and
\* after 3 failed attempts returns its degraded result.
C22_BoundedRetries ==
    /\ provider_run.attempts <= 3
    /\ Len(provider_run.slept) =
          IF provider_run.attempts = 0 THEN 0 ELSE provider_run.attempts - 1
    /\ \A i \in 1..Len(provider_run.slept) :
          provider_run.slept[i] = 2 ^ (i - 1)
    /\ (provider_run.agent = "classify_intent" /\ Exhausted)
          => intent_res.intent_label = "Error_Fallback_API"
    /\ (provider_run.agent = "retrieve_context" /\ Exhausted)
          => /\ a_pc \in {"external", "draft_email"}
             /\ Len(context.snippets) >= 1
    /\ (provider_run.agent = "fetch_external_info" /\ Exhausted)
          => /\ a_pc = "draft_email"
             /\ external_info[1] = "[External error]"
    /\ (provider_run.agent = "draft_email" /\ Exhausted)
          => /\ a_pc = "review_context"
             /\ email_draft.sources = <<"system_error">>
    /\ (provider_run.agent = "review_context" /\ Exhausted)
          => /\ a_pc \in {"approve_and_send", "returned"}
             /\ safety_result.review_status = "FAIL"

\* the drafter gave up after three attempts and two sleeps
C22_Witness ==
    /\ provider_run.agent = "draft_email"
    /\ provider_run.attempts = 3
    /\ provider_run.slept = <<1, 2>>
    /\ provider_run.answer.outcome = "none"
    /\ a_pc = "review_context"
    /\ email_draft.sources = <<"system_error">>

\* the TaskLogEntry of a request
task_log_entry ==
    [task |-> task, intent |-> intent_res, context |-> context,
     external_info |-> external_info, draft |-> email_draft,
     safety |-> safety_report, final_email |-> final_email]

\* entry.model_dump_json(): the keys of TaskLogEntry and their values, in
\* the order of the declaration
model_dump_json(entry) ==
    <<"{", "task", entry.task, "intent", entry.intent,
      "context", entry.context, "external_info", entry.external_info,
      "draft", entry.draft, "safety", entry.safety,
      "final_email", entry.final_email, "}">>

\* log_task: one line per entry is appended to the log file
log_task(sink, entry) == Append(sink, model_dump_json(entry) \o <<NEWLINE>>)

\* the value a line holds for a key
value_in(line, key) ==
    LET at == CHOOSE k \in 1..((Len(line) - 3) \div 2) : line[2 * k] = key
    IN  line[2 * at + 1]

\* C23: the log line of a request whose FinalEmail was built holds a
\* FinalEmail whose subject is the draft's subject and whose body is the
\* redacted_body of the safety report.
C23_LogRoundTrip ==
    (a_pc = "returned")
    => \E i \in 1..Len(log_sink) :
         /\ value_in(log_sink[i], "final_email").subject = email_draft.subject
         /\ value_in(log_sink[i], "final_email").body
               = safety_report.redacted_body

\* provenance tags of the specification
SourceTags == {"vector_db", "external_tool", "human_feedback", "system_error"}

\* the draft is one of the two error drafts
IsErrorDraft(d) ==
    d.subject \in {"[ERROR] generation failed", "[ERROR] response not parsed"}

\* the sources of draft d are those claimed for the given arguments
SourcesAsClaimed(ctx, ext, fb, d) ==
    /\ \A i \in 1..Len(d.sources) : d.sources[i] \in SourceTags
    /\ IF IsErrorDraft(d)
       THEN d.sources = <<"system_error">>
       ELSE /\ InText("vector_db", d.sources) <=> Len(ctx.snippets) > 0
            /\ InText("external_tool", d.sources)
                 <=> (ext # NoExternalInfo /\ ext[1] # "[External error]")
            /\ InText("human_feedback", d.sources) <=> fb \notin {None, ""}
            /\ ~InText("system_error", d.sources)

\* C24: the sources of every returned draft are tags of the specification:
\* vector_db iff snippets were retrieved, external_tool iff external info
\* is present and not an error string, human_feedback iff feedback is
\* present, system_error only, and alone, on an error draft.  Checked for the
\* draft of the request and, where draft_email is about to be called, for
\* every feedback, provider behaviour and an empty context as well.
C24_DraftSources ==
    /\ (a_pc \in {"review_context", "approve_and_send", "returned"})
         => SourcesAsClaimed(context, external_info, None, email_draft)
    /\ (a_pc = "draft_email")
         => \A fb \in FeedbackArgs, b \in DraftBehaviours,
               ctx \in {context, [context EXCEPT !.snippets = <<>>]} :
              LET r == draft_email(ctx, external_info, fb, b) IN
              ~r.raised => SourcesAsClaimed(ctx, external_info, fb, r.result)

\* a draft made from retrieved snippets and an external summary
C24_Witness ==
    /\ a_pc = "review_context"
    /\ external_info = ExternalSummary
    /\ email_draft.sources = <<"vector_db", "external_tool">>

\* C25: when the assistant content is a JSON object with subject and body,
\* plain or inside a json fence, draft_email returns a draft that is not an
\* error draft and has exactly that subject and that body.
C25_DraftFromJsonObject ==
    (/\ LastCall("draft_email")
     /\ provider_run.answer.shape = "json_object"
     /\ provider_run.answer.obj.subject \notin {Missing, JsonNull}
     /\ provider_run.answer.obj.body # <<Missing>>)
    => /\ a_pc = "review_context"
       /\ ~IsErrorDraft(email_draft)
       /\ email_draft.subject = provider_run.answer.obj.subject
       /\ email_draft.body = provider_run.answer.obj.body

\* C26: every event whose append_event call has returned is stored exactly
\* once in the history of the session.
C26_AppendOnly ==
    \A event \in appended : occurrences(event, session_file.history) = 1

\* executions of _send_and_log recorded for the run
sends ==
    Cardinality({i \in 1..Len(agent_history) : agent_history[i][1] = "Sent"})

\* C27: a run sends at most once, the send is its last step, and a run that
\* has not ended has not sent.
C27_SendOnceAndLast ==
    /\ sends <= 1
    /\ (sends = 1) <=> (pc = "END")

\* a run that ended after the human step approved
C27_Witness ==
    /\ pc = "END"
    /\ sends = 1
    /\ human_signal = "approve"

\* position of a node in the forward order of the graph
Rank ==
    [n \in {"classify_intent", "retrieve_context", "external_search",
            "generate_draft", "review_safety", "human_approval",
            "send_and_log", "END"} |->
       CASE n = "classify_intent" -> 1
         [] n = "retrieve_context" -> 2
         [] n = "external_search" -> 3
         [] n = "generate_draft" -> 4
         [] n = "review_safety" -> 5
         [] n = "human_approval" -> 6
         [] n = "send_and_log" -> 7
         [] n = "END" -> 8]

\* C28: every transition moves forward in the order classify, retrieve,
\* external, draft, review, human gate, send, except review -> draft after a
\* failed safety check and human gate -> retrieve without approval; no
\* transition enters classify.
C28_TwoBackwardEdges ==
    [][\/ Rank[pc'] > Rank[pc]
       \/ /\ pc = "review_safety"
          /\ pc' = "generate_draft"
          /\ ~safety_check_passed'
       \/ /\ pc = "human_approval"
          /\ pc' = "retrieve_context"
          /\ ~human_approved']_vars

\* a run that took both backward edges
C28_Witness ==
    /\ reviews(FALSE) >= 1
    /\ human_signal = "reject"
    /\ pc = "retrieve_context"
    /\ draft_version >= 2

\* C29: the node after external_search is generate_draft, whatever the
\* search returned.
C29_ExternalThenDraft ==
    [][pc = "external_search" => pc' = "generate_draft"]_vars

\* drafting follows a search that returned an error string
C29_Witness ==
    /\ pc = "generate_draft"
    /\ InText("[External error]", context_data)
    /\ agent_history[Len(agent_history)] = <<"External Search", "Performed">>

\* revision notes in a context
revision_notes(ctx) ==
    Cardinality({i \in 1..Len(ctx) : ctx[i] = RevisionNote})

\* C30: when the draft node is entered after the k-th failed safety review,
\* the context holds exactly k revision notes.
C30_NotesAccumulate ==
    (pc = "generate_draft" /\ draft_version >= 1 /\ ~safety_check_passed)
    => revision_notes(context_data) = reviews(FALSE)

\* C31: the verdict of a run refers to its current draft: the text the
\* review was given is the draft that the preceding draft step produced.
C31_VerdictOfCurrentDraft ==
    Created
    => review_arg \in {email_draft.body,
                       <<email_draft.subject>> \o email_draft.body}

\* C32: every node execution appends exactly one event to the log, so the
\* log holds the initial event and one event per node executed.
C32_OneEventPerStep == Len(agent_history) = 1 + steps

\* C33: the RetrievedContext handed to the draft and review steps carries
\* the escalation flag: true for a GDPR_Request, for a Shipping_Delay whose
\* body mentions 7 days and for a Refund_Request whose body mentions a
\* compensation, false otherwise.
C33_EscalationCarried ==
    (a_pc \in {"external", "draft_email", "review_context",
               "approve_and_send", "returned"})
    => /\ "escalation_required" \in DOMAIN context
       /\ context.escalation_required
            = determine_escalation(intent_label_of(intent_res),
                                   task.body_hint)

\* C34: whenever the run is routed to external_search the node performs the
\* search; the log never records a skipped external search.
C34_ExternalSearchPerformed ==
    \A i \in 1..Len(agent_history) :
       agent_history[i][1] = "External Search"
       => agent_history[i][2] = "Performed"

\* C35: the endpoint returns a FinalEmail only for a draft the review
\* approved, whose routing decision is "send"; a draft routed to
\* human_approval is not turned into a FinalEmail.
C35_FinalEmailOnlyIfApproved ==
    (a_pc = "returned")
    => /\ safety_report.approved
       /\ routing = "send"

\* C36: a draft is tagged "external_tool" only if fetch_external_info was
\* called in the request and returned something other than an error; a
\* failed search returns a string that starts with "[External error]", which
\* no draft made from it is tagged for; external_info is absent when
\* fetch_external_info was not called.
C36_ExternalTagOnlyFromResult ==
    /\ (/\ a_pc \in {"review_context", "approve_and_send", "returned"}
        /\ InText("external_tool", email_draft.sources))
         => /\ Called("fetch_external_info")
            /\ external_info[2] \notin {"request failed",
                                        "response not processed"}
    /\ (/\ a_pc = "draft_email"
        /\ LastCall("fetch_external_info")
        /\ ExternalProviderFailed)
         => /\ external_info[1] = "[External error]"
            /\ \A fb \in FeedbackArgs, b \in DraftBehaviours :
                  LET r == draft_email(context, external_info, fb, b) IN
                  ~r.raised => ~InText("external_tool", r.result.sources)
    /\ ~Called("fetch_external_info") => external_info = NoExternalInfo

\* the search failed on every attempt and the draft made from its error
\* string is tagged for the retrieved snippets only
C36_Witness ==
    /\ a_pc = "review_context"
    /\ Called("fetch_external_info")
    /\ external_info = <<"[External error]", "request failed">>
    /\ email_draft.sources = <<"vector_db">>

\* C37: load_session and save_session return on every path.  An
\* append_event whose load failed stores the new event alone, and one whose
\* save failed leaves the stored history as it was.
C37_LoadSaveFailSafe ==
    [][\A c \in Callers :
         (appender[c].at = "loaded" /\ appender'[c].at = "saved")
         => /\ appender'[c].save_failed
                 => history_loaded(session_file', TRUE)
                      = history_loaded(session_file, TRUE)
            /\ (appender[c].load_failed /\ ~appender'[c].save_failed)
                 => session_file'
                      = [content |-> "json",
                         history |-> <<event_of(c, appender[c].calls_made)>>]
      ]_vars

\* C38: once every append_event call has returned, each document of the
\* collection is the event at its position in the stored history.
C38_IndexMatchesHistory ==
    (\A c \in Callers : appender[c].at = "idle")
    => \A d \in collection :
          /\ d.event_idx < Len(session_file.history)
          /\ session_file.history[d.event_idx + 1] = d.document

====
